---- MODULE Spec2Model ----
(***************************************************************************)
(* cnproc-rs: PidMonitor (src/src/lib.rs).                                 *)
(*                                                                         *)
(* The model follows one single-threaded user of the crate: it creates a   *)
(* monitor (new / from_id), may call listen, read and finally drops it.    *)
(* read is modelled step by step: the recv call, then one action per       *)
(* iteration of the framing loop.  The receive buffer is a sequence of     *)
(* 32-bit words (the code's Vec<u32>); offsets and lengths are in bytes.   *)
(***************************************************************************)
EXTENDS Integers, Sequences, FiniteSets, TLC

VARIABLES
    open,       \* the descriptors of the endpoints created and not yet closed
    badClose,   \* close() was called on a descriptor that is not open
    mon,        \* the live PidMonitor {fd, id}, or NoMonitor
    sent,       \* listen datagrams written to the live monitor's endpoint
    ret,        \* what the last API call returned (or where read stands)
    pc,         \* "idle" | "loop" | "returned" | "panicked" | "segv"
    buf,        \* read: the words recv stored in the buffer
    nrecv,      \* read: recv's return value (-1 on failure)
    len,        \* read: local `len` (usize)
    header,     \* read: local `header`, as a byte offset into the buffer
    pidevents,  \* read: local `pidevents`
    decoded,    \* history: the sub-messages handed to parse_msg
    iters       \* history: iterations of the framing loop started so far

vars == <<open, badClose, mon, sent, ret, pc, buf, nrecv, len,
          header, pidevents, decoded, iters>>

lifeVars == <<open, badClose, mon, sent>>
readVars == <<buf, nrecv, len, header, pidevents, decoded, iters>>

(***************************************************************************)
(* Bounds of the model.                                                    *)
(***************************************************************************)
\* descriptors the process may hold open at once (its RLIMIT_NOFILE)
MaxSockets == 2
\* listen calls on one monitor
MaxSent == 1
\* longest datagram the kernel delivers, in 32-bit words
MaxWords == 15
\* sysconf(_SC_PAGE_SIZE), scaled down
SysPageSize == 12
\* width of usize, scaled down from 64 (TLC's integers are 32 bits wide)
UsizeBits == 16

(***************************************************************************)
(* The wire-format contract (mod binding, generated from the kernel        *)
(* headers; the values are those of linux/netlink.h, linux/connector.h     *)
(* and linux/cn_proc.h).                                                   *)
(***************************************************************************)
NLMSG_NOOP == 1
NLMSG_ERROR == 2
NLMSG_DONE == 3
CN_IDX_PROC == 1
CN_VAL_PROC == 1
PROC_CN_MCAST_LISTEN == 1
\* the first type tag that is none of no-op, error, done, overrun
NLMSG_MIN_TYPE == 16
\* a discriminant that is none of fork, exec, exit, coredump
PROC_EVENT_NONE == 0
PROC_EVENT_FORK == 1
PROC_EVENT_EXEC == 2
PROC_EVENT_COREDUMP == 1073741824
\* 0x80000000 in the kernel; one more than TLC's largest integer, so the
\* model uses the largest integer.  Only its being distinct is used.
PROC_EVENT_EXIT == 2147483647
\* size_of::<nlmsghdr>(), size_of::<cn_msg>(), size_of::<proc_cn_mcast_op>()
SizeofNlmsghdr == 16
SizeofCnMsg == 20
SizeofMcastOp == 4

\* std::process::id() of the modelled process
ProcessId == 1
\* the constant 8192 of read
PageCap == 8192

Min(a, b) == IF a < b THEN a ELSE b

UsizeModulus == 2 ^ UsizeBits

\* `x as usize` for a signed x
AsUsize(x) == x % UsizeModulus

\* no rounding
nlmsg_align_None(l) == l

(***************************************************************************)
(* netlink.h macros                                                        *)
(***************************************************************************)
nlmsg_align(l) == ((l + 3) \div 4) * 4

nlmsg_hdrlen == nlmsg_align(SizeofNlmsghdr)

\* the length without the header
nlmsg_length_NoHeader(l) == l

nlmsg_length(l) == l + nlmsg_hdrlen

(***************************************************************************)
(* Endpoints and the monitor's life cycle                                  *)
(***************************************************************************)
NoMonitor == [fd |-> -1, id |-> 0, live |-> FALSE]

Monitor(fd, id) == [fd |-> fd, id |-> id, live |-> TRUE]

Handles == 1..MaxSockets

\* the identifiers from_id is called with
Ids == {ProcessId, ProcessId + 1}

\* what an API call returned: the call, Ok / Err (for read also "pending",
\* "panic" and "segv"), the results of socket and bind (from_id; for listen
\* the descriptor written to and the result of writev), and the events (read)
Ret(op, tag, sock, b, events) ==
    [op |-> op, tag |-> tag, sock |-> sock, bind |-> b, events |-> events]

\* pc values in which the caller is free to make the next API call
Callable == {"idle"}

\* read's locals do not exist outside a call of read
NoReadFrame ==
    /\ buf' = <<>>
    /\ nrecv' = 0
    /\ len' = 0
    /\ header' = 0
    /\ pidevents' = <<>>
    /\ decoded' = <<>>
    /\ iters' = 0

\* libc::socket: the lowest free descriptor, or -1
socket(ok) ==
    IF ok /\ Handles \ open # {}
      THEN CHOOSE h \in Handles \ open : \A g \in Handles \ open : h <= g
      ELSE -1

\* libc::bind: fails on a bad descriptor, and otherwise as the kernel decides
bind(fd, ok) == IF fd < 0 \/ ~ok THEN -1 ELSE 0

\* from_id's test of bind's result, off by one
BindFailed_OffByOne(b) == b < -1

\* from_id's test of bind's result
BindFailed(b) == b < 0

\* PidMonitor::from_id(id)
FromId(id) ==
    /\ pc \in Callable
    /\ ~mon.live
    /\ \E sockOk \in BOOLEAN, bindOk \in BOOLEAN :
         /\ LET fd == socket(sockOk)
                b  == bind(fd, bindOk)
            IN  /\ open' = IF fd >= 0 THEN open \cup {fd} ELSE open
                /\ IF BindFailed(b)
                     THEN /\ mon' = NoMonitor
                          /\ ret' = Ret("from_id", "Err", fd, b, <<>>)
                     ELSE /\ mon' = Monitor(fd, id)
                          /\ ret' = Ret("from_id", "Ok", fd, b, <<>>)
    /\ pc' = "idle"
    /\ NoReadFrame
    /\ UNCHANGED <<badClose, sent>>

\* PidMonitor::new()
New == FromId(ProcessId)

\* PidMonitor::from_id with an identifier of the caller's choice
FromIdAny == \E id \in Ids : FromId(id)

\* the segments with the process id as the header's source tag
ListenRequest_ProcessId(id) ==
    [nlmsg_len  |-> nlmsg_length(SizeofCnMsg + SizeofMcastOp),
     nlmsg_type |-> NLMSG_DONE,
     nlmsg_pid  |-> ProcessId,
     idx        |-> CN_IDX_PROC,
     val        |-> CN_VAL_PROC,
     cn_len     |-> SizeofMcastOp,
     op         |-> PROC_CN_MCAST_LISTEN,
     iov_len    |-> <<SizeofNlmsghdr, SizeofCnMsg, SizeofMcastOp>>]

\* the three segments listen hands to writev
ListenRequest(id) ==
    [nlmsg_len  |-> nlmsg_length(SizeofCnMsg + SizeofMcastOp),
     nlmsg_type |-> NLMSG_DONE,
     nlmsg_pid  |-> id,
     idx        |-> CN_IDX_PROC,
     val        |-> CN_VAL_PROC,
     cn_len     |-> SizeofMcastOp,
     op         |-> PROC_CN_MCAST_LISTEN,
     iov_len    |-> <<SizeofNlmsghdr, SizeofCnMsg, SizeofMcastOp>>]

\* libc::writev of the segments iov: the bytes written, or -1
writev(ok, iov) ==
    IF ok THEN iov[1] + iov[2] + iov[3] ELSE -1

\* listen's test of writev's result
WritevFailed(w) == w < 0

\* PidMonitor::listen
Listen ==
    /\ pc \in Callable
    /\ mon.live
    /\ Len(sent) < MaxSent
    /\ \E writevOk \in BOOLEAN :
         LET req == ListenRequest(mon.id)
             w   == writev(writevOk, req.iov_len)
         IN  /\ sent' = IF w >= 0 THEN Append(sent, req) ELSE sent
             /\ ret' = IF WritevFailed(w)
                         THEN Ret("listen", "Err", mon.fd, w, <<>>)
                         ELSE Ret("listen", "Ok", mon.fd, w, <<>>)
    /\ pc' = "idle"
    /\ NoReadFrame
    /\ UNCHANGED <<open, badClose, mon>>

\* Drop for PidMonitor: the caller drops the monitor, or a panic in read
\* unwinds through its owner
Drop ==
    /\ pc \in Callable \cup {"panicked"}
    /\ mon.live
    /\ open' = open \ {mon.fd}
    /\ badClose' = (badClose \/ mon.fd \notin open)
    /\ mon' = NoMonitor
    /\ sent' = <<>>
    /\ ret' = IF pc = "panicked" THEN ret ELSE Ret("drop", "Ok", 0, 0, <<>>)
    /\ pc' = IF pc = "panicked" THEN pc ELSE "idle"
    /\ NoReadFrame

(***************************************************************************)
(* Datagrams.  A message is a header alone (4 words) or a header, a        *)
(* connector envelope and a process event (11 words):                      *)
(*   word 0     nlmsg_len          word 4  cn_msg.id.idx                   *)
(*   word 1     nlmsg_type|flags   word 5  cn_msg.id.val                   *)
(*   word 2, 3  nlmsg_seq, _pid    word 6, 7  cn_msg.seq, ack              *)
(*   word 8     cn_msg.len|flags   word 9  proc_event.what                 *)
(*   word 10    the event's subject process identifier                     *)
(* (the event's cpu and timestamp words, which no code reads, are left     *)
(* out).                                                                   *)
(***************************************************************************)
\* the subject process identifier of the events the kernel sends
Pid == 4242

HdrWords == SizeofNlmsghdr \div 4

FullWords == (SizeofNlmsghdr + SizeofCnMsg) \div 4 + 2

HdrMsg(l, t) == <<l, t, 0, 0>>

FullMsg(l, t, i, v, w) == <<l, t, 0, 0, i, v, 0, 0, 8, w, Pid>>

Types == {NLMSG_NOOP, NLMSG_ERROR, NLMSG_DONE, NLMSG_MIN_TYPE}

Whats == {PROC_EVENT_FORK, PROC_EVENT_EXEC, PROC_EVENT_EXIT,
          PROC_EVENT_COREDUMP, PROC_EVENT_NONE}

\* header-only messages: every type tag, with the true length
HdrMsgs == {HdrMsg(4 * HdrWords, t) : t \in Types}

\* full messages: the well-formed process events, and messages in which one
\* of declared length, type tag and group identity is off
FullMsgs ==
    {FullMsg(4 * FullWords, NLMSG_MIN_TYPE, CN_IDX_PROC, CN_VAL_PROC, w) : w \in Whats}
        \cup {FullMsg(4 * FullWords, NLMSG_MIN_TYPE, g[1], g[2], PROC_EVENT_FORK) :
                g \in {<<CN_IDX_PROC + 1, CN_VAL_PROC>>, <<CN_IDX_PROC, CN_VAL_PROC + 1>>}}
        \cup {FullMsg(l, NLMSG_MIN_TYPE, CN_IDX_PROC, CN_VAL_PROC, w) :
                l \in {0, 4 * HdrWords, 4 * FullWords - 2, 4 * FullWords + 4},
                w \in {PROC_EVENT_FORK, PROC_EVENT_NONE}}
        \cup {FullMsg(4 * FullWords, t, CN_IDX_PROC, CN_VAL_PROC, PROC_EVENT_FORK) :
                t \in Types \ {NLMSG_MIN_TYPE}}

Messages == HdrMsgs \cup FullMsgs

\* the datagrams of at most w words made of back-to-back messages
RECURSIVE DatagramsOf(_)
DatagramsOf(w) ==
    {<<>>} \cup UNION {{m \o d : d \in DatagramsOf(w - Len(m))} :
                        m \in {x \in Messages : Len(x) <= w}}

Datagrams == DatagramsOf(MaxWords)

(***************************************************************************)
(* read: the receive call                                                  *)
(***************************************************************************)
\* the larger of the two sizes
page_size_Larger == IF SysPageSize > PageCap THEN SysPageSize ELSE PageCap

\* page_size, which is also the buffer's capacity in u32 elements
page_size == Min(SysPageSize, PageCap)

\* the length handed to recv, and the size of the allocation, in bytes
BufBytes == page_size * 4

Prefix(d, n) == IF Len(d) <= n THEN d ELSE SubSeq(d, 1, n)

\* what recv can do: fail with -1, or store a datagram (cut to the buffer)
\* and return its length; a datagram may end 2 bytes short of its last word
RecvOutcomes ==
    {[n |-> -1, words |-> <<>>]}
        \cup {[n |-> Min(4 * Len(d), BufBytes),
               words |-> Prefix(d, page_size)] :
                d \in Datagrams}
        \cup {[n |-> Min(4 * Len(d) - 2, BufBytes),
               words |-> Prefix(d, page_size)] :
                d \in Datagrams \ {<<>>}}

\* read's test `len < 0` of the usize len
RecvFailed(l) == l < 0

\* PidMonitor::read, up to the framing loop
ReadRecv ==
    /\ pc \in Callable
    /\ mon.live
    /\ \E r \in RecvOutcomes :
         /\ buf' = r.words
         /\ nrecv' = r.n
         /\ len' = AsUsize(r.n)
         /\ IF RecvFailed(AsUsize(r.n))
              THEN /\ pc' = "returned"
                   /\ ret' = Ret("read", "Err", 0, 0, <<>>)
              ELSE /\ pc' = "loop"
                   /\ ret' = Ret("read", "pending", 0, 0, <<>>)
    /\ header' = 0
    /\ pidevents' = <<>>
    /\ decoded' = <<>>
    /\ iters' = 0
    /\ UNCHANGED lifeVars

(***************************************************************************)
(* read: the framing loop                                                  *)
(***************************************************************************)
\* bytes of the buffer that recv wrote
Received == IF nrecv < 0 THEN 0 ELSE nrecv

\* what a read of uninitialised or foreign memory may yield
Garbage == {0, 1, 3}

\* the values a 4-byte read at byte offset off may yield: the word received
\* there, or anything when recv did not write all of it
Load(off) ==
    IF off + 4 <= Received /\ off \div 4 + 1 <= Len(buf)
      THEN {buf[off \div 4 + 1]}
      ELSE Garbage

\* a read at off stays inside the buffer's allocation
InBounds(off) == off + 4 <= BufBytes

\* the fields one iteration may read of the message at h
Views(h) ==
    [nlmsg_len  : Load(h),
     nlmsg_type : Load(h + 4),
     idx        : Load(h + nlmsg_length(0)),
     val        : Load(h + nlmsg_length(0) + 4),
     what       : Load(h + nlmsg_length(0) + SizeofCnMsg)]

\* the arms of parse_msg's match that are todo!()
Todo(what) ==
    what \in {PROC_EVENT_FORK, PROC_EVENT_EXEC, PROC_EVENT_EXIT,
              PROC_EVENT_COREDUMP}

\* the group test with both words required to differ
ForeignGroup_Both(m) == m.idx # CN_IDX_PROC /\ m.val # CN_VAL_PROC

\* parse_msg's group test
ForeignGroup(m) == m.idx # CN_IDX_PROC \/ m.val # CN_VAL_PROC

\* Option<PidEvent>, or the panic that ends the call: tag is "None", "Some"
\* or "Panic"; kind is "New" or "Exit" under "Some"
Parsed(tag, kind, pid) == [tag |-> tag, kind |-> kind, pid |-> pid]

\* PidEvent
PidEvent(kind, pid) == [kind |-> kind, pid |-> pid]

\* parse_msg: None, or the panic of todo!()
parse_msg(m) ==
    IF ForeignGroup(m) THEN Parsed("None", "", 0)
    ELSE IF Todo(m.what) THEN Parsed("Panic", "", 0)
    ELSE Parsed("None", "", 0)

\* the first half testing for a negative length only
HeaderFits_NonNegative(l) == ~(l < 0)

\* NLMSG_OK, first half: room for a header
HeaderFits(l) == ~(l < nlmsg_hdrlen)

\* NLMSG_OK, second half, comparing the aligned remainder
Truncated_Aligned(l, msg_len) == nlmsg_align(l) < msg_len

\* NLMSG_OK, second half: the declared length overruns what is left
Truncated(l, msg_len) == l < msg_len

\* the match arms on the type tag
IsSkipped(t) == t \in {NLMSG_ERROR, NLMSG_NOOP}

\* the done arm matching the tag after done (NLMSG_OVERRUN)
IsDone_WrongTag(t) == t = NLMSG_DONE + 1

IsDone(t) == t = NLMSG_DONE

\* the byte offsets one iteration reads, given what it finds there
Touched(h, l, m) ==
    IF ~HeaderFits(l) THEN {}
    ELSE IF Truncated(l, m.nlmsg_len) THEN {h}
    ELSE IF IsSkipped(m.nlmsg_type) \/ IsDone(m.nlmsg_type) THEN {h, h + 4}
    ELSE {h, h + 4, h + nlmsg_length(0)}
           \cup (IF m.idx = CN_IDX_PROC THEN {h + nlmsg_length(0) + 4} ELSE {})
           \cup (IF ForeignGroup(m) THEN {}
                 ELSE {h + nlmsg_length(0) + SizeofCnMsg})

\* one iteration of the loop, for the field values m: where control goes
\* ("break", "continue", "next", "panic") and the locals afterwards
LoopBody(h, l, evs, m) ==
    IF ~HeaderFits(l) THEN
        [to |-> "break", header |-> h, len |-> l, events |-> evs, parsed |-> FALSE]
    ELSE IF Truncated(l, m.nlmsg_len) THEN
        [to |-> "break", header |-> h, len |-> l, events |-> evs, parsed |-> FALSE]
    ELSE IF IsSkipped(m.nlmsg_type) THEN
        [to |-> "continue", header |-> h, len |-> l, events |-> evs, parsed |-> FALSE]
    ELSE IF IsDone(m.nlmsg_type) THEN
        [to |-> "break", header |-> h, len |-> l, events |-> evs, parsed |-> FALSE]
    ELSE
        LET r == parse_msg(m)
            aligned_len == nlmsg_align(m.nlmsg_len)
        IN  IF r.tag = "Panic" THEN
                [to |-> "panic", header |-> h, len |-> l, events |-> evs, parsed |-> TRUE]
            ELSE
                [to      |-> IF aligned_len <= l THEN "next" ELSE "break",
                 header  |-> h + aligned_len,
                 len     |-> IF aligned_len <= l THEN l - aligned_len ELSE l,
                 events  |-> IF r.tag = "Some"
                               THEN Append(evs, PidEvent(r.kind, r.pid))
                               ELSE evs,
                 parsed  |-> TRUE]

\* the loop gives up in the model after this many iterations
MaxIters == MaxWords \div HdrWords + 2

\* PidMonitor::read, one iteration of the framing loop (and, when the loop
\* ends, the return of Ok(pidevents))
ReadLoop ==
    /\ pc = "loop"
    /\ iters < MaxIters
    /\ \E m \in Views(header) :
         LET b == LoopBody(header, len, pidevents, m)
         IN  /\ header' = b.header
             /\ len' = b.len
             /\ pidevents' = b.events
             /\ decoded' = IF b.parsed
                             THEN Append(decoded,
                                         [off |-> header, msg_len |-> m.nlmsg_len,
                                          rem |-> len, out |-> parse_msg(m)])
                             ELSE decoded
             /\ pc' = CASE b.to = "break" -> "returned"
                        [] b.to = "panic" -> "panicked"
                        [] OTHER -> "loop"
             /\ ret' = CASE b.to = "break" -> Ret("read", "Ok", 0, 0, b.events)
                         [] b.to = "panic" -> Ret("read", "panic", 0, 0, <<>>)
                         [] OTHER -> ret
    /\ iters' = iters + 1
    /\ UNCHANGED <<buf, nrecv>>
    /\ UNCHANGED lifeVars

\* PidMonitor::read, the return: the frame and its locals are gone, the
\* caller holds the result
ReadReturn ==
    /\ pc = "returned"
    /\ pc' = "idle"
    /\ NoReadFrame
    /\ UNCHANGED ret
    /\ UNCHANGED lifeVars

\* a read outside the buffer's allocation may instead end the process
ReadFault ==
    /\ pc = "loop"
    /\ iters < MaxIters
    /\ \E m \in Views(header) :
         \E off \in Touched(header, len, m) : ~InBounds(off)
    /\ pc' = "segv"
    /\ ret' = Ret("read", "segv", 0, 0, <<>>)
    /\ iters' = iters + 1
    /\ UNCHANGED <<buf, nrecv, len, header, pidevents, decoded>>
    /\ UNCHANGED lifeVars

(***************************************************************************)
(* The program                                                             *)
(***************************************************************************)
Init ==
    /\ open = {}
    /\ badClose = FALSE
    /\ mon = NoMonitor
    /\ sent = <<>>
    /\ ret = Ret("none", "Ok", 0, 0, <<>>)
    /\ pc = "idle"
    /\ buf = <<>>
    /\ nrecv = 0
    /\ len = 0
    /\ header = 0
    /\ pidevents = <<>>
    /\ decoded = <<>>
    /\ iters = 0

Next ==
    \/ New
    \/ FromIdAny
    \/ Listen
    \/ Drop
    \/ ReadRecv
    \/ ReadLoop
    \/ ReadReturn
    \/ ReadFault

Spec == Init /\ [][Next]_vars

(***************************************************************************)
(* Properties                                                              *)
(***************************************************************************)
\* the received word at byte offset off
At(off) == buf[off \div 4 + 1]

\* a datagram was received and a whole header of it lies at the cursor
HeaderAtCursor ==
    /\ nrecv >= 0
    /\ len >= SizeofNlmsghdr
    /\ header + SizeofNlmsghdr <= nrecv

\* the header fields at the cursor
CurLen == At(header)

CurType == At(header + 4)

\* a whole process-event message of the received datagram lies at off
EventMsgAt(off) ==
    /\ off + 4 * FullWords <= nrecv
    /\ At(off + SizeofNlmsghdr) = CN_IDX_PROC
    /\ At(off + SizeofNlmsghdr + 4) = CN_VAL_PROC

WhatAt(off) == At(off + SizeofNlmsghdr + SizeofCnMsg)

PidAt(off) == At(off + SizeofNlmsghdr + SizeofCnMsg + 4)

\* the events among the results of the sub-messages decoded so far
EventsOf(dec) ==
    LET some == SelectSeq(dec, LAMBDA d : d.out.tag = "Some")
    IN  [i \in 1..Len(some) |-> PidEvent(some[i].out.kind, some[i].out.pid)]

\* C1: decoding a process-event sub-message with discriminant fork or exec
\* gives New(pid), with exit or coredump gives Exit(pid), pid being the one
\* in the payload, and read holds that event among its events.
C1_EventsClassified ==
    nrecv >= 0 =>
      /\ \A i \in 1..Len(decoded) :
           LET off == decoded[i].off
           IN  (EventMsgAt(off) /\ decoded[i].msg_len = 4 * FullWords) =>
                 /\ WhatAt(off) \in {PROC_EVENT_FORK, PROC_EVENT_EXEC}
                      => decoded[i].out = Parsed("Some", "New", PidAt(off))
                 /\ WhatAt(off) \in {PROC_EVENT_EXIT, PROC_EVENT_COREDUMP}
                      => decoded[i].out = Parsed("Some", "Exit", PidAt(off))
      /\ pidevents = EventsOf(decoded)

\* C2: when recv fails, read returns an OsError without running the framing
\* loop and without returning events.
C2_RecvFailureIsErr ==
    nrecv < 0 => (pc = "returned" /\ ret.tag = "Err" /\ iters = 0)

\* C3: after a successful receive read ends with Ok, whatever the bytes: it
\* returns no error and does not abort.  (Stated for the case in which the
\* sub-message at the cursor was received whole, so that every byte read of
\* it is a byte of the datagram.)
C3_ContentNeverFails ==
    (nrecv >= 0 /\ header + 4 * FullWords <= nrecv) =>
      /\ pc \notin {"panicked", "segv"}
      /\ (pc = "returned" => ret.tag = "Ok")

\* C4: the framing loop is finite: an iteration that does not end the loop
\* leaves strictly fewer bytes to frame.
C4_LoopProgress ==
    [][(pc = "loop" /\ pc' = "loop" /\ nrecv >= 0) => len' < len]_vars

\* C5: a no-op or error sub-message adds no event and framing goes on with
\* the sub-message that follows it in the datagram.
C5_SkipAdvances ==
    [][(pc = "loop" /\ HeaderAtCursor /\ CurLen <= len
          /\ CurType \in {NLMSG_NOOP, NLMSG_ERROR}
          /\ nlmsg_align(CurLen) + SizeofNlmsghdr <= len)
        => (/\ pc' = "loop"
            /\ header' = header + nlmsg_align(CurLen)
            /\ pidevents' = pidevents)]_vars

\* C6: a monitor that open returned has sent exactly one listen datagram for
\* its identifier, so read never runs on a monitor that has not subscribed.
C6_OpenSubscribes ==
    mon.live => (Len(sent) = 1 /\ sent[1].nlmsg_pid = mon.id)

\* C7: every endpoint created is closed exactly once on every exit path: no
\* endpoint stays open without a monitor owning it, and none is closed twice.
C7_EndpointsReleased ==
    /\ open \subseteq (IF mon.live THEN {mon.fd} ELSE {})
    /\ ~badClose

\* C8: open returns an error exactly when socket or bind failed, returns a
\* monitor only when both succeeded, and a monitor's handle is never negative.
C8_OpenResult ==
    /\ ret.op = "from_id" =>
         /\ ret.tag = "Err" <=> (ret.sock < 0 \/ ret.bind < 0)
         /\ ret.tag = "Ok" <=> mon.live
         /\ mon.live => mon.fd = ret.sock
    /\ mon.live => (mon.fd >= 0 /\ mon.fd \in open)

\* open failed at bind, after the endpoint was created
C8_BindFailed ==
    ret.op = "from_id" /\ ret.tag = "Err" /\ ret.sock >= 0 /\ ret.bind < 0

\* C9: at a sub-message whose type tag is done the loop stops at once: read
\* returns the events gathered before it and decodes nothing more, whatever
\* follows in the buffer.
C9_DoneStops ==
    [][(pc = "loop" /\ HeaderAtCursor /\ CurLen <= len /\ CurType = NLMSG_DONE)
        => (/\ pc' = "returned"
            /\ ret' = Ret("read", "Ok", 0, 0, pidevents)
            /\ pidevents = EventsOf(decoded)
            /\ decoded' = decoded
            /\ header' = header)]_vars

\* read returned at a done sub-message, after decoding a sub-message before
\* it and with a further sub-message behind it
C9_StoppedAtDone ==
    /\ pc = "returned"
    /\ HeaderAtCursor
    /\ CurLen <= len
    /\ CurType = NLMSG_DONE
    /\ Len(decoded) >= 1
    /\ nlmsg_align(CurLen) + SizeofNlmsghdr <= len

\* C10: at a sub-message whose declared length exceeds the bytes left in the
\* datagram the loop stops without an error: read returns the events gathered
\* before it, and no sub-message handed to the decoder overran the datagram.
C10_TruncationStops ==
    /\ [](nrecv >= 0 => \A i \in 1..Len(decoded) :
                          decoded[i].msg_len <= decoded[i].rem)
    /\ [][(pc = "loop" /\ HeaderAtCursor /\ len < CurLen)
           => (/\ pc' = "returned"
               /\ ret' = Ret("read", "Ok", 0, 0, pidevents)
               /\ pidevents = EventsOf(decoded)
               /\ decoded' = decoded)]_vars

\* read returned at a sub-message declaring more than is left, after decoding
\* a sub-message before it
C10_StoppedAtTruncation ==
    /\ pc = "returned"
    /\ HeaderAtCursor
    /\ len < CurLen
    /\ Len(decoded) >= 1

\* the received bytes from offset off on are back-to-back sub-messages, each
\* whole, each declaring at least a header, none of them the done message,
\* the last one ending where the datagram ends
RECURSIVE WellFormedFrom(_)
WellFormedFrom(off) ==
    \/ off = nrecv
    \/ /\ off + SizeofNlmsghdr <= nrecv
       /\ At(off) >= SizeofNlmsghdr
       /\ off + At(off) <= nrecv
       /\ At(off + 4) # NLMSG_DONE
       /\ WellFormedFrom(off + nlmsg_align(At(off)))

\* the number of sub-messages of a well-formed datagram from offset off on
RECURSIVE CountFrom(_)
CountFrom(off) ==
    IF off >= nrecv THEN 0 ELSE 1 + CountFrom(off + nlmsg_align(At(off)))

\* the offset of the k-th sub-message (counted from 0) of a well-formed
\* datagram: the sum of the aligned declared lengths before it
RECURSIVE ChainOff(_)
ChainOff(k) ==
    IF k = 0 THEN 0
    ELSE LET o == ChainOff(k - 1) IN o + nlmsg_align(At(o))

\* C11: for a whole datagram of N back-to-back well-formed sub-messages the
\* loop is at the k-th sub-message at its k-th iteration, hence visits the N
\* of them once each at the offsets the declared lengths give, and read
\* returns after them with the decoded events in datagram order.
C11_VisitsEachOnce ==
    (nrecv >= 0 /\ nrecv = 4 * Len(buf) /\ WellFormedFrom(0)) =>
      /\ pc \notin {"panicked", "segv"}
      /\ pc = "loop" =>
           /\ iters <= CountFrom(0)
           /\ header = ChainOff(iters)
      /\ \A i, j \in 1..Len(decoded) :
           i < j => decoded[i].off < decoded[j].off
      /\ pidevents = EventsOf(decoded)

\* C12: a decoded sub-message whose received group identity is not the
\* process-event one gives nothing, whatever its payload holds, and the
\* events of read are those of the other sub-messages only.
C12_ForeignGroupIgnored ==
    nrecv >= 0 =>
      /\ \A i \in 1..Len(decoded) :
           LET off == decoded[i].off
           IN  ( /\ off + SizeofNlmsghdr + 8 <= nrecv
                 /\ \/ At(off + SizeofNlmsghdr) # CN_IDX_PROC
                    \/ At(off + SizeofNlmsghdr + 4) # CN_VAL_PROC )
                 => decoded[i].out = Parsed("None", "", 0)
      /\ pidevents = EventsOf(decoded)

\* a whole sub-message of a foreign group with a fork payload was decoded,
\* and the loop went on
C12_ForeignForkDecoded ==
    /\ nrecv >= 0
    /\ pc = "loop"
    /\ \E i \in 1..Len(decoded) :
         LET off == decoded[i].off
         IN  /\ off + 4 * FullWords <= nrecv
             /\ At(off + SizeofNlmsghdr + 4) # CN_VAL_PROC
             /\ WhatAt(off) = PROC_EVENT_FORK
             /\ decoded[i].out.tag = "None"

\* C13: every listen request sent, whatever the identifier, declares in its
\* header the length header_size + envelope_size + 1 rounded up to 4 bytes,
\* a multiple of 4, which is also the number of bytes of its three segments.
C13_ListenLength ==
    \A i \in 1..Len(sent) :
      /\ sent[i].nlmsg_len = ((SizeofNlmsghdr + SizeofCnMsg + 1 + 3) \div 4) * 4
      /\ sent[i].nlmsg_len % 4 = 0
      /\ sent[i].nlmsg_len =
           sent[i].iov_len[1] + sent[i].iov_len[2] + sent[i].iov_len[3]

\* a listen request was sent by a monitor opened with an identifier other
\* than the process id
C13_SentWithOtherId ==
    /\ Len(sent) >= 1
    /\ sent[1].nlmsg_pid # ProcessId
    /\ ret.op = "listen"
    /\ ret.tag = "Ok"

\* C14: every sub-message handed to the decoder declares a length of at
\* least the header size and at most the bytes that remained, so that one
\* declaring less than a header (0 included) is never decoded.
C14_DecodedWithinBounds ==
    nrecv >= 0 =>
      \A i \in 1..Len(decoded) :
        /\ SizeofNlmsghdr <= decoded[i].msg_len
        /\ decoded[i].msg_len <= decoded[i].rem

\* C15: the decoder takes a payload for a process event only when the
\* declared region of the sub-message holds the envelope and the payload's
\* discriminant; a smaller sub-message gives nothing, whatever the received
\* bytes after it hold.
C15_DecoderStaysInside ==
    nrecv >= 0 =>
      \A i \in 1..Len(decoded) :
        ( /\ decoded[i].msg_len < SizeofNlmsghdr + SizeofCnMsg + 4
          /\ decoded[i].off + 4 * FullWords <= nrecv )
          => decoded[i].out = Parsed("None", "", 0)

\* C16 as stated: a received datagram never exceeds min(system_page_size,
\* 8192) bytes, the capacity of the receive buffer.
C16_AtMostPageBytes ==
    nrecv <= Min(SysPageSize, PageCap)

\* C16: the receive buffer holds min(system_page_size, 8192) 4-byte elements
\* and recv is given its size in bytes, so a received datagram never exceeds
\* 4 * min(system_page_size, 8192) bytes.
C16_AtMostPageWords ==
    /\ nrecv <= 4 * Min(SysPageSize, PageCap)
    /\ Len(buf) <= Min(SysPageSize, PageCap)

\* a datagram filled the receive buffer and was cut by it: its last
\* sub-message declares more than the buffer kept of it
C16_BufferFilled ==
    /\ pc = "returned"
    /\ ret.tag = "Ok"
    /\ nrecv = 4 * Min(SysPageSize, PageCap)
    /\ nrecv > Min(SysPageSize, PageCap)
    /\ header + len = nrecv
    /\ len >= SizeofNlmsghdr
    /\ len < At(header)

\* C17: after a receive of fewer bytes than one header (0 included) the
\* first step of the loop ends read with Ok and no event, whatever lies in
\* the buffer, having decoded nothing; the call neither panics nor faults.
C17_ShortDatagramEmpty ==
    /\ [](( /\ nrecv >= 0
            /\ nrecv < SizeofNlmsghdr
            /\ pc \in {"loop", "returned"} )
          => /\ iters <= 1
             /\ decoded = <<>>
             /\ pidevents = <<>>
             /\ pc = "returned" => ret = Ret("read", "Ok", 0, 0, <<>>))
    /\ [][( /\ pc = "loop"
            /\ nrecv >= 0
            /\ nrecv < SizeofNlmsghdr )
          => /\ pc' = "returned"
             /\ ret' = Ret("read", "Ok", 0, 0, <<>>)
             /\ header' = 0]_vars

\* read returned from an empty datagram
C17_EmptyDatagramReturned ==
    /\ pc = "returned"
    /\ ret.op = "read"
    /\ ret.tag = "Ok"
    /\ nrecv = 0
    /\ buf = <<>>
    /\ iters = 1

\* C18: every listen request sent carries the identifier the monitor was
\* opened with as the header's source tag, the done type tag, the
\* process-event group identity and, as the envelope's payload length, the
\* size of the operation code, in three segments; listen makes one writev
\* call for them and returns Err exactly when that call failed.
C18_ListenRequestShape ==
    /\ [](\A i \in 1..Len(sent) :
            /\ mon.live
            /\ sent[i].nlmsg_pid = mon.id
            /\ sent[i].nlmsg_type = NLMSG_DONE
            /\ sent[i].idx = CN_IDX_PROC
            /\ sent[i].val = CN_VAL_PROC
            /\ sent[i].op = PROC_CN_MCAST_LISTEN
            /\ Len(sent[i].iov_len) = 3
            /\ sent[i].cn_len = sent[i].iov_len[3])
    /\ [](ret.op = "listen" =>
            /\ ret.tag \in {"Ok", "Err"}
            /\ ret.tag = "Err" <=> ret.bind < 0)
    /\ [][Len(sent') > Len(sent) =>
            /\ Len(sent') = Len(sent) + 1
            /\ ret'.op = "listen"
            /\ ret'.tag = "Ok"
            /\ ret'.sock = mon.fd]_vars
    /\ [][(ret'.op = "listen" /\ ret'.tag = "Err" /\ ret.op # "listen")
            => sent' = sent]_vars

\* a monitor opened with an identifier other than the process id has sent
\* its listen request
C18_ListenSent ==
    /\ mon.live
    /\ mon.id # ProcessId
    /\ Len(sent) >= 1
    /\ ret.op = "listen"
    /\ ret.tag = "Ok"
    /\ ret.bind > 0

====
